---- MODULE Spec2Model ----
(***************************************************************************)
(* Model of migrate_sqlite_to_postgres.py: a one-shot copy of twelve       *)
(* tables from a SQLite file into PostgreSQL over one source and one       *)
(* destination connection.  Every migrate_<table> routine is one action    *)
(* (SELECT, the insert loop, the commit, and the exception handling that   *)
(* the routine or main() applies to it).  The destination connection is    *)
(* modelled with the transaction state psycopg2 keeps for it: rows         *)
(* inserted but not committed, and the failed-transaction state a rejected *)
(* statement leaves behind until the next commit or rollback.              *)
(***************************************************************************)
EXTENDS Integers, Sequences, FiniteSets

VARIABLES
    env,          \* what the environment lets the start-up do
    src,          \* the SQLite database: table index -> contents
    run,          \* 1 for the first invocation of the script, 2 for a re-run
    pc,           \* position of the script
    next,         \* index of the next migrate_<table> call in main()
    sqliteConn,   \* "none", "open", "closed"
    pgConn,       \* "none", "open", "closed", "broken"
    closeCalls,   \* number of close() calls made on each connection
    pgTx,         \* "idle", "intrans", "aborted"
    pgPending,    \* rows inserted in the open transaction, not committed
    pgCommitted,  \* rows committed to the destination
    attempted,    \* tables whose migrate routine has been entered
    outcome,      \* per table: "none", "migrated", "skipped", "raised"
    banner,       \* "Migration completed successfully!" was printed
    exitCode,     \* -1 while the process runs, then 0 or 1
    snap,         \* pgCommitted when the first invocation ended
    exit1,        \* exit code of the first invocation
    rtable,       \* row-construction check: the table of the row
    row,          \* row-construction check: a sqlite3.Row (field -> value)
    rec           \* row-construction check: the values passed to INSERT

vars == <<env, src, run, pc, next, sqliteConn, pgConn, closeCalls, pgTx,
          pgPending, pgCommitted, attempted, outcome, banner, exitCode,
          snap, exit1, rtable, row, rec>>

runVars == <<env, src, run, pc, next, sqliteConn, pgConn, closeCalls, pgTx,
             pgPending, pgCommitted, attempted, outcome, banner, exitCode,
             snap, exit1>>

rowVars == <<rtable, row, rec>>

\* ---------------------------------------------------------------- bounds
MaxRows == 2    \* rows per source table
MaxAnom == 1    \* source tables that differ from the one-good-row baseline
MaxNum  == 2    \* largest numeric value stored in a boolean-like column

\* ------------------------------------------------------- program constants
NULL == -1      \* Python None / SQL NULL

TableName == <<"auth", "user", "chat", "tag", "chatidtag", "document",
               "file", "model", "prompt", "tool", "knowledge", "function">>

Tables == 1..Len(TableName)

\* the routines whose body is wrapped in try/except Exception
HasTry_document(t) == t >= 6

HasTry(t) == t >= 7

\* ON CONFLICT target of each INSERT: tag uses (id, user_id); every other
\* table a single column (id, collection_name or command), held in .id
ConflictKey(t, r) == IF t = 4 THEN <<r.id, r.user_id>> ELSE <<r.id>>

\* two keys collide in a unique index only when no component is NULL
KeyEq(k1, k2) ==
    /\ Len(k1) = Len(k2)
    /\ \A i \in 1..Len(k1) : k1[i] # NULL /\ k1[i] = k2[i]

Conflict(t, r, visible) ==
    \E j \in 1..Len(visible) :
        /\ visible[j].t = t
        /\ KeyEq(ConflictKey(t, visible[j]), ConflictKey(t, r))

DestRow(t, r) == [t |-> t, id |-> r.id, user_id |-> r.user_id, val |-> "src"]

\* ------------------------------------------------------------ source data
\* fault of a source row when it is inserted:
\*   "client"  the loop body raises before a statement is sent: row[f] on a
\*             column the row lacks (IndexError, see BuildRecord), or
\*             execute() failing to adapt a value (a NUL in a string)
\*   "server"  the destination rejects the INSERT (a constraint, a type)
\*   "lost"    the destination connection breaks during the INSERT; every
\*             later pg_conn.cursor() then raises InterfaceError
Faults == {"none", "client", "server", "lost"}

UserIds(t) == IF t = 4 THEN {1, NULL} ELSE {1}

\* n rows with distinct keys; only the last one may be faulty, since the
\* insert loop never gets past the first faulty row
RowsOf(n, f, u) ==
    [i \in 1..n |-> [id |-> i, user_id |-> u,
                     fault |-> IF i = n THEN f ELSE "none"]]

Contents(t) ==
    {[present |-> FALSE, rows |-> <<>>], [present |-> TRUE, rows |-> <<>>]}
    \cup {[present |-> TRUE, rows |-> RowsOf(n, f, u)] :
              n \in 1..MaxRows, f \in Faults, u \in UserIds(t)}

Base == [present |-> TRUE, rows |-> RowsOf(1, "none", 1)]

Envs == {"ok", "nopwd", "nofile", "nosqlite", "nopg"}

\* a row already in the destination before the first run (same key as the
\* first auth row of the source, other content)
OldRow == [t |-> 1, id |-> 1, user_id |-> 1, val |-> "old"]


\* -------------------------------------------------- destination connection
\* state of the destination connection while a routine runs
ConnState(tx, pending, committed, conn) ==
    [tx |-> tx, pending |-> pending, committed |-> committed, conn |-> conn,
     err |-> FALSE]

\* pg_cur.execute("INSERT ... ON CONFLICT (...) DO NOTHING", values of r):
\* psycopg2 opens a transaction with the first statement and adapts the
\* parameters before it sends anything; a statement sent in a failed
\* transaction is refused; a rejected statement fails the transaction
InsertRow_autocommit(st, t, r) ==
    IF st.err THEN st
    ELSE IF r.fault = "client" THEN [st EXCEPT !.err = TRUE]
    ELSE IF st.tx = "aborted" THEN [st EXCEPT !.err = TRUE]
    ELSE IF r.fault = "server"
         THEN [st EXCEPT !.tx = "aborted", !.pending = <<>>, !.err = TRUE]
    ELSE IF r.fault = "lost"
         THEN [st EXCEPT !.tx = "idle", !.pending = <<>>,
                         !.conn = "broken", !.err = TRUE]
    ELSE [st EXCEPT !.committed = IF Conflict(t, r, st.committed)
                                  THEN @ ELSE Append(@, DestRow(t, r))]

InsertRow(st, t, r) ==
    IF st.err THEN st
    ELSE IF r.fault = "client" THEN [st EXCEPT !.err = TRUE]
    ELSE IF st.tx = "aborted" THEN [st EXCEPT !.err = TRUE]
    ELSE IF r.fault = "server"
         THEN [st EXCEPT !.tx = "aborted", !.pending = <<>>, !.err = TRUE]
    ELSE IF r.fault = "lost"
         THEN [st EXCEPT !.tx = "idle", !.pending = <<>>,
                         !.conn = "broken", !.err = TRUE]
    ELSE [st EXCEPT !.tx = "intrans",
                    !.pending = IF Conflict(t, r, st.committed \o st.pending)
                                THEN @ ELSE Append(@, DestRow(t, r))]

\* for row in rows: pg_cur.execute(...)   (the loop ends at the first raise)
RECURSIVE RunInserts(_, _, _, _)
RunInserts(st, t, rows, i) ==
    IF i > Len(rows) THEN st
    ELSE RunInserts(InsertRow(st, t, rows[i]), t, rows, i + 1)

\* pg_conn.commit(): COMMIT of a failed transaction rolls it back silently
Commit(st) ==
    IF st.tx = "aborted"
    THEN [st EXCEPT !.tx = "idle", !.pending = <<>>]
    ELSE [st EXCEPT !.tx = "idle", !.pending = <<>>,
                    !.committed = st.committed \o st.pending]

\* the body of a migrate_<table> routine after the two cursor() calls:
\* SELECT ... FROM <table>, fetchall, the insert loop, commit
CopyTable(t) ==
    LET st0 == ConnState(pgTx, pgPending, pgCommitted, pgConn) IN
    IF ~src[t].present THEN [st0 EXCEPT !.err = TRUE]
    ELSE LET st1 == RunInserts(st0, t, src[t].rows, 1) IN
         IF st1.err THEN st1 ELSE Commit(st1)

\* the process ends: the server discards what the connection left uncommitted
ExitProcess(code) ==
    /\ pc' = "done"
    /\ exitCode' = code
    /\ pgPending' = <<>>
    /\ pgTx' = "idle"


\* ----------------------------------------------------------------- start-up
InitRun ==
    /\ run = 1
    /\ pc = "import"
    /\ next = 0
    /\ sqliteConn = "none"
    /\ pgConn = "none"
    /\ closeCalls = [c \in {"sqlite", "pg"} |-> 0]
    /\ pgTx = "idle"
    /\ pgPending = <<>>
    /\ attempted = {}
    /\ outcome = [t \in Tables |-> "none"]
    /\ banner = FALSE
    /\ exitCode = -1
    /\ snap = <<>>
    /\ exit1 = -1

\* the sets of tables that differ from the baseline
AnomSets == {S \in SUBSET Tables : Cardinality(S) <= MaxAnom}

AnyContents == UNION {Contents(t) : t \in Tables}

BaseSource == [t \in Tables |-> Base]

Init ==
    /\ InitRun
    /\ env \in Envs
    /\ \E A \in AnomSets :
           /\ env # "ok" => A = {}
           /\ \E f \in [A -> AnyContents] :
                  /\ \A t \in A : f[t] \in Contents(t) \ {Base}
                  /\ src = [t \in Tables |-> IF t \in A THEN f[t] ELSE Base]
    /\ pgCommitted \in {<<>>, <<OldRow>>}
    /\ rtable = 0
    /\ row = <<>>
    /\ rec = [status |-> "none", vals |-> <<>>]

\* module level: POSTGRES_PASSWORD = os.environ.get(...); exit(1) if unset
CheckPassword ==
    /\ pc = "import"
    /\ IF env = "nopwd"
       THEN ExitProcess(1)
       ELSE /\ pc' = "main"
            /\ UNCHANGED <<exitCode, pgPending, pgTx>>
    /\ UNCHANGED <<env, src, run, next, sqliteConn, pgConn, closeCalls,
                   pgCommitted, attempted, outcome, banner, snap, exit1>>
    /\ UNCHANGED rowVars

\* main(): if not os.path.exists(SQLITE_DB): sys.exit(1)
CheckSourceFile ==
    /\ pc = "main"
    /\ IF env = "nofile"
       THEN ExitProcess(1)
       ELSE /\ pc' = "connect_sqlite"
            /\ UNCHANGED <<exitCode, pgPending, pgTx>>
    /\ UNCHANGED <<env, src, run, next, sqliteConn, pgConn, closeCalls,
                   pgCommitted, attempted, outcome, banner, snap, exit1>>
    /\ UNCHANGED rowVars

\* sqlite_conn = connect_sqlite(); a raise reaches main's except: exit(1)
connect_sqlite ==
    /\ pc = "connect_sqlite"
    /\ IF env = "nosqlite"
       THEN /\ ExitProcess(1)
            /\ UNCHANGED sqliteConn
       ELSE /\ sqliteConn' = "open"
            /\ pc' = "connect_postgres"
            /\ UNCHANGED <<exitCode, pgPending, pgTx>>
    /\ UNCHANGED <<env, src, run, next, pgConn, closeCalls,
                   pgCommitted, attempted, outcome, banner, snap, exit1>>
    /\ UNCHANGED rowVars

\* pg_conn = connect_postgres(); a raise reaches main's except: exit(1)
connect_postgres_goOn ==
    /\ pc = "connect_postgres"
    /\ pgConn' = IF env = "nopg" THEN "broken" ELSE "open"
    /\ pc' = "migrate"
    /\ next' = 1
    /\ UNCHANGED <<exitCode, pgPending, pgTx>>
    /\ UNCHANGED <<env, src, run, sqliteConn, closeCalls,
                   pgCommitted, attempted, outcome, banner, snap, exit1>>
    /\ UNCHANGED rowVars

connect_postgres ==
    /\ pc = "connect_postgres"
    /\ IF env = "nopg"
       THEN /\ ExitProcess(1)
            /\ UNCHANGED <<pgConn, next>>
       ELSE /\ pgConn' = "open"
            /\ pc' = "migrate"
            /\ next' = 1
            /\ UNCHANGED <<exitCode, pgPending, pgTx>>
    /\ UNCHANGED <<env, src, run, sqliteConn, closeCalls,
                   pgCommitted, attempted, outcome, banner, snap, exit1>>
    /\ UNCHANGED rowVars


\* ------------------------------------------------------------ the routines
\* One migrate_<table>(sqlite_conn, pg_conn) call made by main(), with what
\* main() does when the call raises.  The two cursor() calls come before the
\* routine's try block; pg_conn.cursor() raises on a broken connection.
Migrate(t) ==
    /\ pc = "migrate"
    /\ next = t
    /\ attempted' = attempted \cup {t}
    /\ LET st == IF pgConn # "open"
                 THEN [ConnState(pgTx, pgPending, pgCommitted, pgConn)
                          EXCEPT !.err = TRUE]
                 ELSE CopyTable(t)
           caught == pgConn = "open" /\ HasTry(t)
       IN  IF ~st.err
           THEN \* commit done, "Migrated n records" printed
                /\ outcome' = [outcome EXCEPT ![t] = "migrated"]
                /\ pgTx' = st.tx
                /\ pgPending' = st.pending
                /\ pgCommitted' = st.committed
                /\ pgConn' = st.conn
                /\ next' = t + 1
                /\ UNCHANGED <<pc, exitCode>>
           ELSE IF caught
           THEN \* except Exception: print warning, return normally
                /\ outcome' = [outcome EXCEPT ![t] = "skipped"]
                /\ pgTx' = st.tx
                /\ pgPending' = st.pending
                /\ pgCommitted' = st.committed
                /\ pgConn' = st.conn
                /\ next' = t + 1
                /\ UNCHANGED <<pc, exitCode>>
           ELSE \* the exception reaches main's except clauses: sys.exit(1)
                /\ outcome' = [outcome EXCEPT ![t] = "raised"]
                /\ ExitProcess(1)
                /\ pgConn' = st.conn
                /\ pgCommitted' = st.committed
                /\ UNCHANGED next
    /\ UNCHANGED <<env, src, run, sqliteConn, closeCalls, banner, snap, exit1>>
    /\ UNCHANGED rowVars

migrate_auth      == Migrate(1)

migrate_user      == Migrate(2)

migrate_chat      == Migrate(3)

migrate_tag       == Migrate(4)

migrate_chatidtag == Migrate(5)

migrate_document  == Migrate(6)

migrate_file      == Migrate(7)

migrate_model     == Migrate(8)

migrate_prompt    == Migrate(9)

migrate_tool      == Migrate(10)

migrate_knowledge == Migrate(11)

migrate_function  == Migrate(12)

\* main() after the last routine: banner, both close() calls, normal return
Finish ==
    /\ pc = "migrate"
    /\ next = Len(TableName) + 1
    /\ banner' = TRUE
    /\ sqliteConn' = "closed"
    /\ pgConn' = "closed"
    /\ closeCalls' = [c \in {"sqlite", "pg"} |-> closeCalls[c] + 1]
    /\ ExitProcess(0)
    /\ UNCHANGED <<env, src, run, next, pgCommitted, attempted, outcome,
                   snap, exit1>>
    /\ UNCHANGED rowVars

\* the operator starts the script a second time on the same two databases
Rerun ==
    /\ pc = "done"
    /\ run = 1
    /\ run' = 2
    /\ pc' = "import"
    /\ next' = 0
    /\ sqliteConn' = "none"
    /\ pgConn' = "none"
    /\ closeCalls' = [c \in {"sqlite", "pg"} |-> 0]
    /\ attempted' = {}
    /\ outcome' = [t \in Tables |-> "none"]
    /\ banner' = FALSE
    /\ exitCode' = -1
    /\ snap' = pgCommitted
    /\ exit1' = exitCode
    /\ UNCHANGED <<env, src, pgTx, pgPending, pgCommitted>>
    /\ UNCHANGED rowVars

main ==
    \/ CheckSourceFile
    \/ connect_sqlite
    \/ connect_postgres
    \/ migrate_auth
    \/ migrate_user
    \/ migrate_chat
    \/ migrate_tag
    \/ migrate_chatidtag
    \/ migrate_document
    \/ migrate_file
    \/ migrate_model
    \/ migrate_prompt
    \/ migrate_tool
    \/ migrate_knowledge
    \/ migrate_function
    \/ Finish

Next == CheckPassword \/ main

Spec == Init /\ [][Next]_vars

NextTwice == Next \/ Rerun

SpecTwice == Init /\ [][NextTwice]_vars


\* ------------------------------------------------------- row construction
\* The values each routine computes from one sqlite3.Row before the INSERT.
\* A row is a function from the column names in row.keys() to their values;
\* row[f] with f not in row.keys() raises IndexError.
Vals == {NULL} \cup (0..MaxNum)

RowTables == {1, 3, 4, 8, 12}

\* columns of the row that the routine may find missing; auth names its
\* columns in the SELECT, so a fetched auth row always has "active"
OptionalFields(t) ==
    IF t = 3 THEN {"archived", "pinned"}
    ELSE IF t = 4 THEN {"user_id", "data", "meta"}
    ELSE IF t = 8 THEN {"is_active"}
    ELSE IF t = 12 THEN {"is_active", "is_global"}
    ELSE {}

RequiredFields(t) == IF t = 1 THEN {"active"} ELSE {}

\* Python bool() of a number
bool(v) == v # 0

auth_active(r) == IF r["active"] # NULL THEN bool(r["active"]) ELSE TRUE

\* row['archived'] is read without a presence test
chat_archived_raises(r) == "archived" \notin DOMAIN r

chat_archived(r) == IF r["archived"] # NULL THEN bool(r["archived"]) ELSE FALSE

chat_pinned(r) ==
    IF "pinned" \in DOMAIN r /\ r["pinned"] # NULL
    THEN bool(r["pinned"]) ELSE FALSE

model_is_active(r) ==
    IF "is_active" \in DOMAIN r /\ r["is_active"] # NULL
    THEN bool(r["is_active"]) ELSE TRUE

function_is_active(r) ==
    IF "is_active" \in DOMAIN r /\ r["is_active"] # NULL
    THEN bool(r["is_active"]) ELSE TRUE

function_is_global(r) ==
    IF "is_global" \in DOMAIN r /\ r["is_global"] # NULL
    THEN bool(r["is_global"]) ELSE FALSE

tag_user_id(r) == IF "user_id" \in DOMAIN r THEN r["user_id"] ELSE NULL

tag_meta_metaFirst(r) ==
    IF "meta" \in DOMAIN r THEN r["meta"]
    ELSE IF "data" \in DOMAIN r THEN r["data"] ELSE NULL

tag_meta(r) ==
    IF "data" \in DOMAIN r THEN r["data"]
    ELSE IF "meta" \in DOMAIN r THEN r["meta"] ELSE NULL

\* the loop body of migrate_<table> up to the execute() call
BuildRecord(t, r) ==
    IF t = 1 THEN [status |-> "ok", vals |-> [active |-> auth_active(r)]]
    ELSE IF t = 3 THEN
        IF chat_archived_raises(r)
        THEN [status |-> "error", vals |-> <<>>]
        ELSE [status |-> "ok",
              vals |-> [archived |-> chat_archived(r), pinned |-> chat_pinned(r)]]
    ELSE IF t = 4 THEN
        [status |-> "ok",
         vals |-> [user_id |-> tag_user_id(r), meta |-> tag_meta(r)]]
    ELSE IF t = 8 THEN
        [status |-> "ok", vals |-> [is_active |-> model_is_active(r)]]
    ELSE [status |-> "ok",
          vals |-> [is_active |-> function_is_active(r),
                    is_global |-> function_is_global(r)]]

InitRow ==
    /\ rtable \in RowTables
    /\ \E K \in SUBSET OptionalFields(rtable) :
           row \in [K \cup RequiredFields(rtable) -> Vals]
    /\ rec = [status |-> "none", vals |-> <<>>]
    /\ env = "ok"
    /\ src = BaseSource
    /\ run = 1
    /\ pc = "off"
    /\ next = 0
    /\ sqliteConn = "open"
    /\ pgConn = "open"
    /\ closeCalls = [c \in {"sqlite", "pg"} |-> 0]
    /\ pgTx = "idle"
    /\ pgPending = <<>>
    /\ pgCommitted = <<>>
    /\ attempted = {}
    /\ outcome = [t \in Tables |-> "none"]
    /\ banner = FALSE
    /\ exitCode = -1
    /\ snap = <<>>
    /\ exit1 = -1

BuildRow ==
    /\ pc = "off"
    /\ rec.status = "none"
    /\ rec' = BuildRecord(rtable, row)
    /\ UNCHANGED <<rtable, row>>
    /\ UNCHANGED runVars

SpecRow == InitRow /\ [][BuildRow]_vars


\* ------------------------------------------------------------------ claims
MandatoryTables == 1..6

OptionalTables == 7..12

Failed(t) == outcome[t] \in {"skipped", "raised"}

\* the rows this program wrote (the destination may have held others before)
CommittedOf(t) == {j \in 1..Len(pgCommitted) :
                      pgCommitted[j].t = t /\ pgCommitted[j].val = "src"}

\* the source table can be read and none of its rows is faulty
SourceGood(t) ==
    /\ src[t].present
    /\ \A i \in 1..Len(src[t].rows) : src[t].rows[i].fault = "none"

\* every source row of t has a committed destination row with its key
AllCommitted(t) ==
    \A i \in 1..Len(src[t].rows) :
        \E j \in 1..Len(pgCommitted) :
            /\ pgCommitted[j].t = t
            /\ pgCommitted[j].id = src[t].rows[i].id

\* C1: when the migration of a mandatory table (auth, user, chat, tag,
\* chatidtag, document) fails, the run has ended with exit code 1, the
\* success banner was not printed, and no later table was attempted.
C1_MandatoryFailureAborts ==
    \A t \in MandatoryTables :
        Failed(t) =>
            /\ pc = "done"
            /\ exitCode = 1
            /\ ~banner
            /\ \A u \in attempted : u <= t

C1_Witness ==
    /\ outcome[6] = "raised"
    /\ attempted = 1..6
    /\ pc = "done"
    /\ exitCode = 1

\* C2: when an optional table (file, model, prompt, tool, knowledge,
\* function) fails, the failure is caught in its routine (a skip warning is
\* logged), and the run ends with every table attempted, the success banner
\* printed and exit code 0.
C2_OptionalFailureIsolated ==
    \A t \in OptionalTables :
        /\ outcome[t] # "raised"
        /\ (outcome[t] = "skipped" /\ pc = "done") =>
               /\ attempted = Tables
               /\ banner
               /\ exitCode = 0

\* C3: when the run has ended, every connection that was opened has been
\* closed exactly once.
C3_ConnectionsClosedOnce ==
    pc = "done" =>
        /\ (sqliteConn # "none" => closeCalls["sqlite"] = 1)
        /\ (pgConn # "none" => closeCalls["pg"] = 1)

\* C4: a second run that follows a successful first run ends without error
\* and leaves the committed destination rows exactly as the first run left
\* them (no row inserted, none duplicated).
C4_SecondRunChangesNothing ==
    (run = 2 /\ pc = "done" /\ exit1 = 0) =>
        /\ exitCode = 0
        /\ pgCommitted = snap

\* C5: with the password unset, the source file missing, or a connection
\* that cannot be opened, no table is ever attempted, nothing is written to
\* the destination, and the process ends with exit code 1.
C5_StartupErrorsFatal ==
    env # "ok" =>
        /\ pc # "migrate"
        /\ attempted = {}
        /\ \A t \in Tables : outcome[t] = "none" /\ CommittedOf(t) = {}
        /\ pgPending = <<>>
        /\ ~banner
        /\ (pc = "done" => exitCode = 1)

C5_Witness ==
    /\ env = "nopg"
    /\ sqliteConn = "open"
    /\ pgConn = "none"
    /\ pc = "done"
    /\ exitCode = 1

\* C6: committed rows written by the run belong only to tables already
\* attempted, which form a prefix of the table sequence; when a mandatory
\* table has failed, every table before it keeps all its rows committed and
\* no row of the failing table or of a later table is committed.
C6_CommittedPrefixSurvives ==
    /\ attempted = 1..Cardinality(attempted)
    /\ \A t \in Tables : CommittedOf(t) # {} => t \in attempted
    /\ \A t \in MandatoryTables :
           outcome[t] = "raised" =>
               /\ \A u \in Tables : u >= t => CommittedOf(u) = {}
               /\ \A u \in Tables : u < t => AllCommitted(u)

C6_Witness ==
    /\ outcome[5] = "raised"
    /\ Len(src[5].rows) = 2
    /\ src[5].rows[2].fault = "client"
    /\ CommittedOf(4) # {}
    /\ CommittedOf(5) = {}
    /\ pc = "done"

\* C9: a table reported as skipped has none of its rows committed, at the
\* time of the failure or at any later time.
C9_SkippedTableCommitsNothing ==
    \A t \in OptionalTables :
        outcome[t] = "skipped" => CommittedOf(t) = {}

\* the table cannot be read from the source, or the destination rejects
\* one of its rows
ReadOrRejectFailure(t) ==
    \/ ~src[t].present
    \/ \E i \in 1..Len(src[t].rows) : src[t].rows[i].fault = "server"

\* C10: when the run has ended and an optional table failed because its
\* source read failed or the destination rejected an insert, every later
\* table whose source read and inserts succeed on their own is migrated
\* with all its rows committed.
C10_LaterTablesUnaffected ==
    pc = "done" =>
        \A t \in OptionalTables : \A u \in OptionalTables :
            (t < u /\ Failed(t) /\ ReadOrRejectFailure(t) /\ SourceGood(u)) =>
                /\ outcome[u] = "migrated"
                /\ AllCommitted(u)

\* the value a coerced-boolean column takes per the rule: the default when
\* the field is absent or null, else whether the number is nonzero
Coerced(f, default) ==
    IF f \notin DOMAIN row \/ row[f] = NULL THEN default ELSE row[f] # 0

\* C7: building a row never raises for an absent field, and each boolean
\* column (auth.active, chat.archived, chat.pinned, model.is_active,
\* function.is_active, function.is_global) gets its default for an absent or
\* null field, false for 0 and true for a nonzero number.
C7_CoercedBoolean ==
    (rec.status # "none" /\ rtable \in {1, 3, 8, 12}) =>
        /\ rec.status = "ok"
        /\ rtable = 1 => rec.vals["active"] = Coerced("active", TRUE)
        /\ rtable = 3 => /\ rec.vals["archived"] = Coerced("archived", FALSE)
                         /\ rec.vals["pinned"] = Coerced("pinned", FALSE)
        /\ rtable = 8 => rec.vals["is_active"] = Coerced("is_active", TRUE)
        /\ rtable = 12 => /\ rec.vals["is_active"] = Coerced("is_active", TRUE)
                          /\ rec.vals["is_global"] = Coerced("is_global", FALSE)

\* C8 as stated: tag.meta is the row's meta when meta is present (also when
\* data is present too), the row's data when only data is present, and null
\* when both are absent.
C8_MetaPreferred ==
    (rtable = 4 /\ rec.status = "ok") =>
        /\ "meta" \in DOMAIN row => rec.vals["meta"] = row["meta"]
        /\ ("meta" \notin DOMAIN row /\ "data" \in DOMAIN row) =>
               rec.vals["meta"] = row["data"]
        /\ ("meta" \notin DOMAIN row /\ "data" \notin DOMAIN row) =>
               rec.vals["meta"] = NULL

\* C8 amended: tag.meta is the row's data when data is present (also when
\* meta is present too), the row's meta when only meta is present, and null
\* when both are absent.
C8_DataPreferred ==
    (rtable = 4 /\ rec.status = "ok") =>
        /\ "data" \in DOMAIN row => rec.vals["meta"] = row["data"]
        /\ ("data" \notin DOMAIN row /\ "meta" \in DOMAIN row) =>
               rec.vals["meta"] = row["meta"]
        /\ ("data" \notin DOMAIN row /\ "meta" \notin DOMAIN row) =>
               rec.vals["meta"] = NULL

C8_Witness ==
    /\ rtable = 4
    /\ rec.status = "ok"
    /\ {"data", "meta"} \subseteq DOMAIN row
    /\ row["data"] # row["meta"]
    /\ rec.vals["meta"] = row["data"]

====
